---- MODULE Spec2Model ----
(***************************************************************************)
(* WebIDE: the project tree engine (hook useFileSystem), the persistence   *)
(* gateway it writes through (StorageService), the tree helpers of         *)
(* FileUtils and the open-tab coordinator of the IDE page.                 *)
(*                                                                         *)
(* JavaScript objects have identity: several handlers of useFileSystem     *)
(* change arrays and nodes in place (Array.push on currentProject.files,   *)
(* file.children = ... inside Array.filter), and a shallow copy            *)
(* {...currentProject} shares its files array with the original.  The      *)
(* model therefore keeps a heap: `heap` holds the FileItem objects and     *)
(* `arrs` the top-level files arrays, both addressed by their index.       *)
(* Children arrays are never changed in place, so a node holds its         *)
(* children as a sequence of addresses.                                    *)
(*                                                                         *)
(* Strings that the code takes apart (names, paths) are sequences of       *)
(* one-character strings; file contents are only compared, and are TLA+    *)
(* strings.                                                                *)
(***************************************************************************)
EXTENDS Integers, Sequences, FiniteSets, TLC

VARIABLES
    heap,            \* FileItem objects, by address
    arrs,            \* top-level files arrays (Project.files), by address
    currentProject,  \* useFileSystem state: the Project object
    selectedFileId,  \* useFileSystem state
    openTabs,        \* IDE state: EditorTab[]
    activeTabId,     \* IDE state
    editorContent,   \* IDE state
    stored,          \* localforage: project id -> stored Project (a clone)
    writes,          \* number of storage.saveProject calls issued so far
    pending,         \* handlers suspended at `await storage.saveProject`
    nextId,          \* FileUtils.generateId: the next fresh identifier
    mountedTabId,    \* MonacoEditor: the activeTabId its onChange closed over
    log,             \* history: the calls made so far, with their results
    lastSaved        \* history: tab id -> content at open / at the last save

vars == <<heap, arrs, currentProject, selectedFileId, openTabs, activeTabId,
          editorContent, stored, writes, pending, nextId, mountedTabId, log,
          lastSaved>>

tabVars == <<openTabs, activeTabId, editorContent, mountedTabId, lastSaved>>

-----------------------------------------------------------------------------
(* Bounds of the model *)

\* handler calls in one behaviour of the tree-engine specification
MaxOps == 2
\* handler calls in one behaviour of the tab-coordinator specification
MaxTabOps == 4
\* tree-engine calls among them
MaxTabTreeOps == 1
\* handler calls in one behaviour of the overlapping-calls specification
MaxAsyncOps == 2

\* calls of the tree engine when writes may fail
MaxFailOps == 2

\* calls of the tree engine when files get names with dots at their ends
MaxNameOps == 2

\* calls of the tree engine before and with an export and import
MaxZipOps == 3

\* calls of the page's handlers and timeouts of the auto-save timer
MaxAutoOps == 4

\* calls in one behaviour of the content-update specification
MaxContentOps == 2

\* calls of the page's handlers when formats and saves complete later
MaxFormatOps == 4

\* calls of StorageService.saveProject and deleteProject in one behaviour
MaxStoreOps == 2

-----------------------------------------------------------------------------
(* JavaScript values *)

\* `undefined` / `null` where an id is expected (parentId?: string, string | null)
NoId == 0
\* `null` where findFile returns no FileItem
NoAddr == 0

\* 'a' and 'a.b': the names the user types; one without and one with an extension
NameA == <<"a">>
NameAB == <<"a", ".", "b">>
Names == {NameA, NameAB}

\* names with a '.' at the end and at the start: the rename input takes any
\* text that is not blank
NameADot == <<"a", ".">>
NameDotA == <<".", "a">>
DottedNames == {NameADot, NameDotA, NameAB}

\* the text the user types into the editor
Contents == {"x", "y"}

Slash == <<"/">>
Dot == "."
\* the text `${undefined}` renders
UndefinedStr == <<"u", "n", "d", "e", "f", "i", "n", "e", "d">>

FileItem(id, name, type, content, parentId, path, children) ==
    [id |-> id, name |-> name, type |-> type, content |-> content,
     parentId |-> parentId, path |-> path, children |-> children]

\* `file.children` as a condition: the property is set on folders only
\* (children: [] is truthy), never on files
HasChildren(file) == file.type = "folder"

\* a new object on the heap
Alloc(h, obj) == [heap |-> Append(h, obj), addr |-> Len(h) + 1]

-----------------------------------------------------------------------------
(* String functions *)

\* the index of the first occurrence of pat in s at or after i, 0 if none
RECURSIVE IndexOfFrom(_, _, _)
IndexOfFrom(s, pat, i) ==
    IF i + Len(pat) - 1 > Len(s) THEN 0
    ELSE IF SubSeq(s, i, i + Len(pat) - 1) = pat THEN i
    ELSE IndexOfFrom(s, pat, i + 1)

\* String.prototype.replace with a string pattern: the first occurrence only
Replace(s, pat, rep) ==
    LET i == IndexOfFrom(s, pat, 1)
    IN  IF i = 0 THEN s
        ELSE SubSeq(s, 1, i - 1) \o rep \o SubSeq(s, i + Len(pat), Len(s))

\* the index of the last '.' of s, 0 if none
RECURSIVE LastDotFrom(_, _)
LastDotFrom(s, i) ==
    IF i = 0 THEN 0 ELSE IF s[i] = Dot THEN i ELSE LastDotFrom(s, i - 1)

-----------------------------------------------------------------------------
(* The tree *)

RECURSIVE findFile(_, _, _)
findFile(h, files, fileId) ==
    IF files = <<>> THEN NoAddr
    ELSE LET file == Head(files)
         IN  IF h[file].id = fileId THEN file
             ELSE LET found == IF HasChildren(h[file])
                               THEN findFile(h, h[file].children, fileId)
                               ELSE NoAddr
                  IN  IF found # NoAddr THEN found
                      ELSE findFile(h, Tail(files), fileId)

\* the tree below an array, as a value: what a structured clone of it holds
RECURSIVE Tree(_, _)
Tree(h, files) ==
    [i \in 1..Len(files) |->
        [h[files[i]] EXCEPT !.children = Tree(h, h[files[i]].children)]]

\* The nodes of a tree value, each with the id of the folder whose children
\* list holds it (NoId for the root list) and the names on the chain to it.
RECURSIVE Entries(_, _, _)
Entries(tree, owner, prefix) ==
    UNION { LET n == tree[i]
                chain == IF prefix = <<>> THEN n.name ELSE prefix \o Slash \o n.name
            IN  {[id |-> n.id, name |-> n.name, type |-> n.type,
                  content |-> n.content, parentId |-> n.parentId,
                  path |-> n.path, owner |-> owner, chain |-> chain,
                  pos |-> i]}
                \cup Entries(n.children, n.id, chain)
          : i \in 1..Len(tree) }

Nodes(tree) == Entries(tree, NoId, <<>>)
Ids(tree) == {e.id : e \in Nodes(tree)}

\* the subtree of a tree value rooted at the first node with the id, <<>> if none
RECURSIVE Subtree(_, _)
Subtree(tree, id) ==
    IF tree = <<>> THEN <<>>
    ELSE IF tree[1].id = id THEN <<tree[1]>>
    ELSE LET sub == Subtree(tree[1].children, id)
         IN  IF sub # <<>> THEN sub ELSE Subtree(Tail(tree), id)

\* the current project's tree
Files == Tree(heap, arrs[currentProject.files])

-----------------------------------------------------------------------------
(* Tree rewriting, as the handlers of useFileSystem do it.  Array.map and   *)
(* object spread build new objects; Array.filter builds a new array but     *)
(* removeFileFromTree assigns file.children of the nodes it keeps in place. *)
(* Each operator takes the heap and returns the heap it leaves.             *)

\* removeFileFromTree with a filter that ends at the node it removes: the
\* nodes that follow it in its list are dropped with it
RECURSIVE removeFileFromTreeToEnd(_, _, _)
removeFileFromTreeToEnd(h, files, fileId) ==
    IF files = <<>> THEN [heap |-> h, files |-> <<>>]
    ELSE LET file == Head(files)
         IN  IF h[file].id = fileId
             THEN [heap |-> h, files |-> <<>>]
             ELSE LET h1 == IF HasChildren(h[file])
                            THEN LET sub == removeFileFromTreeToEnd(h, h[file].children, fileId)
                                 IN  [sub.heap EXCEPT ![file].children = sub.files]
                            ELSE h
                      rest == removeFileFromTreeToEnd(h1, Tail(files), fileId)
                  IN  [heap |-> rest.heap, files |-> <<file>> \o rest.files]

\* deleteFile / moveFile: removeFileFromTree
RECURSIVE removeFileFromTree(_, _, _)
removeFileFromTree(h, files, fileId) ==
    IF files = <<>> THEN [heap |-> h, files |-> <<>>]
    ELSE LET file == Head(files)
         IN  IF h[file].id = fileId
             THEN removeFileFromTree(h, Tail(files), fileId)
             ELSE LET h1 == IF HasChildren(h[file])
                            THEN LET sub == removeFileFromTree(h, h[file].children, fileId)
                                 IN  [sub.heap EXCEPT ![file].children = sub.files]
                            ELSE h
                      rest == removeFileFromTree(h1, Tail(files), fileId)
                  IN  [heap |-> rest.heap, files |-> <<file>> \o rest.files]

\* createFile / createFolder / duplicateFile / moveFile: addFileToParent
\* (addFolderToParent is the same function)
RECURSIVE addFileToParent(_, _, _, _)
addFileToParent(h, files, parentId, newFile) ==
    IF files = <<>> THEN [heap |-> h, files |-> <<>>]
    ELSE LET file == Head(files)
             one == IF h[file].id = parentId /\ h[file].type = "folder"
                    THEN Alloc(h, [h[file] EXCEPT !.children = @ \o <<newFile>>])
                    ELSE IF HasChildren(h[file])
                    THEN LET sub == addFileToParent(h, h[file].children, parentId, newFile)
                         IN  Alloc(sub.heap, [h[file] EXCEPT !.children = sub.files])
                    ELSE [heap |-> h, addr |-> file]
             rest == addFileToParent(one.heap, Tail(files), parentId, newFile)
         IN  [heap |-> rest.heap, files |-> <<one.addr>> \o rest.files]

\* renameFile: updateFileName
RECURSIVE updateFileName(_, _, _, _)
updateFileName(h, files, fileId, newName) ==
    IF files = <<>> THEN [heap |-> h, files |-> <<>>]
    ELSE LET file == Head(files)
             one == IF h[file].id = fileId
                    THEN Alloc(h, [h[file] EXCEPT !.name = newName])
                    ELSE IF HasChildren(h[file])
                    THEN LET sub == updateFileName(h, h[file].children, fileId, newName)
                         IN  Alloc(sub.heap, [h[file] EXCEPT !.children = sub.files])
                    ELSE [heap |-> h, addr |-> file]
             rest == updateFileName(one.heap, Tail(files), fileId, newName)
         IN  [heap |-> rest.heap, files |-> <<one.addr>> \o rest.files]

\* updateInFiles with a test that every file passes: the content is given
\* to each file of the tree
RECURSIVE updateInFilesOfAll(_, _, _, _)
updateInFilesOfAll(h, files, fileId, content) ==
    IF files = <<>> THEN [heap |-> h, files |-> <<>>]
    ELSE LET file == Head(files)
             one == IF h[file].id = fileId \/ h[file].type = "file"
                    THEN Alloc(h, [h[file] EXCEPT !.content = content])
                    ELSE IF h[file].type = "folder" /\ HasChildren(h[file])
                    THEN LET sub == updateInFilesOfAll(h, h[file].children, fileId, content)
                         IN  Alloc(sub.heap, [h[file] EXCEPT !.children = sub.files])
                    ELSE [heap |-> h, addr |-> file]
             rest == updateInFilesOfAll(one.heap, Tail(files), fileId, content)
         IN  [heap |-> rest.heap, files |-> <<one.addr>> \o rest.files]

\* updateFileContent: updateInFiles
RECURSIVE updateInFiles(_, _, _, _)
updateInFiles(h, files, fileId, content) ==
    IF files = <<>> THEN [heap |-> h, files |-> <<>>]
    ELSE LET file == Head(files)
             one == IF h[file].id = fileId
                    THEN Alloc(h, [h[file] EXCEPT !.content = content])
                    ELSE IF h[file].type = "folder" /\ HasChildren(h[file])
                    THEN LET sub == updateInFiles(h, h[file].children, fileId, content)
                         IN  Alloc(sub.heap, [h[file] EXCEPT !.children = sub.files])
                    ELSE [heap |-> h, addr |-> file]
             rest == updateInFiles(one.heap, Tail(files), fileId, content)
         IN  [heap |-> rest.heap, files |-> <<one.addr>> \o rest.files]

\* the first element of existingFiles that is a file of that name, NoAddr if none
RECURSIVE FindByName(_, _, _)
FindByName(h, files, name) ==
    IF files = <<>> THEN NoAddr
    ELSE IF h[Head(files)].name = name /\ h[Head(files)].type = "file"
    THEN Head(files)
    ELSE FindByName(h, Tail(files), name)

\* `${findFile(currentProject.files, parentId)?.path}/${name}`, or name at root
PathUnder(h, files, parentId, name) ==
    IF parentId = NoId THEN name
    ELSE LET parent == findFile(h, files, parentId)
         IN  (IF parent = NoAddr THEN UndefinedStr ELSE h[parent].path)
             \o Slash \o name

\* FileUtils.duplicateFile: the name with _copy before the extension
DuplicateName(name) ==
    LET d == LastDotFrom(name, Len(name))
        hasParts == d > 0
        extension == IF hasParts THEN SubSeq(name, d + 1, Len(name)) ELSE <<>>
        baseName == IF hasParts THEN SubSeq(name, 1, d - 1) ELSE name
        copy == <<"_", "c", "o", "p", "y">>
    IN  IF extension # <<>> THEN baseName \o copy \o <<Dot>> \o extension
        ELSE baseName \o copy

\* FileUtils.duplicateFile: the copy, with the id it is given
DuplicateOf(file, id) ==
    LET newName == DuplicateName(file.name)
    IN  [file EXCEPT !.id = id, !.name = newName,
                     !.path = Replace(file.path, file.name, newName)]

\* FileUtils.getFileExtension: filename.split('.').pop() (lower case already)
GetFileExtension(name) ==
    SubSeq(name, LastDotFrom(name, Len(name)) + 1, Len(name))

-----------------------------------------------------------------------------
(* The state after the hook's mount effect has run *)

NoProject == [id |-> NoId, name |-> <<>>, files |-> NoAddr]

\* the id createNewProject gives the project
ProjectId == 1

\* 'My Project'
ProjectName == <<"M", "y", " ", "P", "r", "o", "j", "e", "c", "t">>

IndexHtml == <<"i", "n", "d", "e", "x", ".", "h", "t", "m", "l">>
StyleCss == <<"s", "t", "y", "l", "e", ".", "c", "s", "s">>
ScriptJs == <<"s", "c", "r", "i", "p", "t", ".", "j", "s">>

\* createNewProject: three files in the root list (their texts abbreviated)
DefaultHeap ==
    << FileItem(2, IndexHtml, "file", "<!DOCTYPE html>", NoId, IndexHtml, <<>>),
       FileItem(3, StyleCss, "file", "body {}", NoId, StyleCss, <<>>),
       FileItem(4, ScriptJs, "file", "console.log()", NoId, ScriptJs, <<>>) >>

\* A project of an earlier session, loaded by initializeProject: what
\* createFolder('a'), createFolder('a.b', a), createFile('a', a) and
\* createFile('a') built, with the texts saved into the two files.
StoredHeap ==
    << FileItem(2, NameA, "folder", "", NoId, NameA, <<2, 3>>),
       FileItem(3, NameAB, "folder", "", 2, NameA \o Slash \o NameAB, <<>>),
       FileItem(4, NameA, "file", "x", 2, NameA \o Slash \o NameA, <<>>),
       FileItem(5, NameA, "file", "y", NoId, NameA, <<>>) >>

InitialProjects ==
    { [heap |-> DefaultHeap, files |-> <<1, 2, 3>>],
      [heap |-> StoredHeap, files |-> <<1, 4>>] }

\* what localforage keeps of a project: a structured clone
Clone(h, a, project) ==
    [id |-> project.id, name |-> project.name, files |-> Tree(h, a[project.files])]

\* the key 'projects_list' of the store; the key of a project is its id
ProjectsList == 0

\* the entry of the projects list for a project (lastModified, a time, is
\* not part of the model's projects)
Summary(project) == [id |-> project.id, name |-> project.name]

Init ==
    \E p \in InitialProjects :
        /\ heap = p.heap
        /\ arrs = <<p.files>>
        /\ currentProject = [id |-> ProjectId, name |-> ProjectName, files |-> 1]
        /\ selectedFileId = NoId
        /\ openTabs = <<>>
        /\ activeTabId = NoId
        /\ editorContent = ""
        /\ stored = (ProjectId :> Clone(heap, arrs, currentProject))
                    @@ (ProjectsList :> <<Summary(currentProject)>>)
        /\ writes = 0
        /\ pending = <<>>
        /\ nextId = Len(p.heap) + 2
        /\ mountedTabId = NoId
        /\ log = <<>>
        /\ lastSaved = <<>>

-----------------------------------------------------------------------------
(* The handlers of useFileSystem.  A handler runs to its                    *)
(* `await storage.saveProject(...)`, where it joins `pending`; the rest of   *)
(* it runs in saveProjectDone when the write has completed.                 *)

\* the record of a call in the history
Call(op, name, id, parent, content) ==
    [op |-> op, name |-> name, id |-> id, parent |-> parent, content |-> content,
     ret |-> NoId, done |-> FALSE, toast |-> "", before |-> Files, after |-> <<>>,
     wrote |-> FALSE, tabs |-> openTabs, active |-> activeTabId,
     selected |-> selectedFileId, written |-> <<>>, threw |-> FALSE]

\* a call that returns without a write
Return(call, ret, toast) ==
    /\ log' = Append(log, [call EXCEPT !.done = TRUE, !.ret = ret,
                                       !.toast = toast, !.after = Files])
    /\ UNCHANGED <<heap, arrs, currentProject, stored, writes, pending, nextId>>

\* `await storage.saveProject(updatedProject)`: the write is issued with the
\* project as it is now, and the handler is suspended
AwaitSaveProject(h, a, updatedProject, call, ret, toast) ==
    /\ heap' = h
    /\ arrs' = a
    /\ pending' = Append(pending,
            [op |-> call.op, call |-> Len(log) + 1, project |-> updatedProject,
             snapshot |-> Clone(h, a, updatedProject), ret |-> ret,
             toast |-> toast, fileId |-> call.id, selected |-> selectedFileId,
             tabId |-> activeTabId, content |-> editorContent])
    /\ writes' = writes + 1
    /\ log' = Append(log, [call EXCEPT !.wrote = TRUE,
                                       !.written = Tree(h, a[updatedProject.files])])

createFile(name, parentId) ==
    LET files == arrs[currentProject.files]
        parent == IF parentId # NoId THEN findFile(heap, files, parentId) ELSE NoAddr
        existingFiles ==
            IF parentId # NoId
            THEN (IF parent # NoAddr /\ HasChildren(heap[parent])
                  THEN heap[parent].children ELSE <<>>)
            ELSE files
        existingFile == FindByName(heap, existingFiles, name)
        call == Call("createFile", name, NoId, parentId, "")
        newFile == Alloc(heap, FileItem(nextId, name, "file", "", parentId,
                                        PathUnder(heap, files, parentId, name), <<>>))
        added == addFileToParent(newFile.heap, files, parentId, newFile.addr)
    IN  /\ currentProject # NoProject
        /\ IF existingFile # NoAddr
           THEN /\ Return(call, heap[existingFile].id, "File already exists")
           ELSE /\ nextId' = nextId + 1
                /\ IF parentId # NoId
                   THEN AwaitSaveProject(added.heap, Append(arrs, added.files),
                            [currentProject EXCEPT !.files = Len(arrs) + 1],
                            call, nextId, "File created")
                   ELSE AwaitSaveProject(newFile.heap,
                            [arrs EXCEPT ![currentProject.files] = Append(@, newFile.addr)],
                            currentProject, call, nextId, "File created")
                /\ UNCHANGED <<currentProject, stored>>
        /\ UNCHANGED <<selectedFileId, tabVars>>

createFolder(name, parentId) ==
    LET files == arrs[currentProject.files]
        call == Call("createFolder", name, NoId, parentId, "")
        newFolder == Alloc(heap, FileItem(nextId, name, "folder", "", parentId,
                                          PathUnder(heap, files, parentId, name), <<>>))
        added == addFileToParent(newFolder.heap, files, parentId, newFolder.addr)
    IN  /\ currentProject # NoProject
        /\ nextId' = nextId + 1
        /\ IF parentId # NoId
           THEN AwaitSaveProject(added.heap, Append(arrs, added.files),
                    [currentProject EXCEPT !.files = Len(arrs) + 1],
                    call, nextId, "Folder created")
           ELSE AwaitSaveProject(newFolder.heap,
                    [arrs EXCEPT ![currentProject.files] = Append(@, newFolder.addr)],
                    currentProject, call, nextId, "Folder created")
        /\ UNCHANGED <<currentProject, stored, selectedFileId, tabVars>>

\* deleteFile with an existence check: it returns early, without a write,
\* when no node has the id
deleteFileIfPresent(fileId) ==
    LET files == arrs[currentProject.files]
        call == Call("deleteFile", <<>>, fileId, NoId, "")
        removed == removeFileFromTree(heap, files, fileId)
    IN  /\ currentProject # NoProject
        /\ IF findFile(heap, files, fileId) = NoAddr
           THEN Return(call, NoId, "")
           ELSE /\ AwaitSaveProject(removed.heap, Append(arrs, removed.files),
                        [currentProject EXCEPT !.files = Len(arrs) + 1],
                        call, NoId, "File deleted")
                /\ UNCHANGED <<currentProject, stored, nextId>>
        /\ UNCHANGED <<selectedFileId, tabVars>>

deleteFile(fileId) ==
    LET files == arrs[currentProject.files]
        call == Call("deleteFile", <<>>, fileId, NoId, "")
        removed == removeFileFromTree(heap, files, fileId)
    IN  /\ currentProject # NoProject
        /\ AwaitSaveProject(removed.heap, Append(arrs, removed.files),
                [currentProject EXCEPT !.files = Len(arrs) + 1],
                call, NoId, "File deleted")
        /\ UNCHANGED <<currentProject, stored, nextId, selectedFileId, tabVars>>

duplicateFile(fileId) ==
    LET files == arrs[currentProject.files]
        call == Call("duplicateFile", <<>>, fileId, NoId, "")
        sourceFile == findFile(heap, files, fileId)
        duplicatedFile == Alloc(heap, DuplicateOf(heap[sourceFile], nextId))
        parentId == heap[sourceFile].parentId
        added == addFileToParent(duplicatedFile.heap, files, parentId, duplicatedFile.addr)
    IN  /\ currentProject # NoProject
        /\ IF sourceFile = NoAddr \/ heap[sourceFile].type # "file"
           THEN Return(call, NoId, "")
           ELSE /\ nextId' = nextId + 1
                /\ IF parentId # NoId
                   THEN AwaitSaveProject(added.heap, Append(arrs, added.files),
                            [currentProject EXCEPT !.files = Len(arrs) + 1],
                            call, nextId, "File duplicated")
                   ELSE AwaitSaveProject(duplicatedFile.heap,
                            [arrs EXCEPT ![currentProject.files] =
                                Append(@, duplicatedFile.addr)],
                            currentProject, call, nextId, "File duplicated")
                /\ UNCHANGED <<currentProject, stored>>
        /\ UNCHANGED <<selectedFileId, tabVars>>

\* moveFile's movedFile without the new parent reference
MovedFileKeepsParent(fileToMove, newParentId, path) ==
    [fileToMove EXCEPT !.path = path]

\* moveFile: { ...fileToMove, parentId: newParentId, path: ... }
MovedFile(fileToMove, newParentId, path) ==
    [fileToMove EXCEPT !.parentId = newParentId, !.path = path]

moveFile(fileId, newParentId) ==
    LET files == arrs[currentProject.files]
        call == Call("moveFile", <<>>, fileId, newParentId, "")
        fileToMove == findFile(heap, files, fileId)
        movedFile == Alloc(heap,
            MovedFile(heap[fileToMove], newParentId,
                      PathUnder(heap, files, newParentId, heap[fileToMove].name)))
        removed == removeFileFromTree(movedFile.heap, files, fileId)
        added == addFileToParent(removed.heap, removed.files, newParentId, movedFile.addr)
        updatedFiles == IF newParentId # NoId
                        THEN added
                        ELSE [heap |-> removed.heap,
                              files |-> Append(removed.files, movedFile.addr)]
    IN  /\ currentProject # NoProject
        /\ IF fileToMove = NoAddr
           THEN Return(call, NoId, "")
           ELSE /\ AwaitSaveProject(updatedFiles.heap, Append(arrs, updatedFiles.files),
                        [currentProject EXCEPT !.files = Len(arrs) + 1],
                        call, NoId, "File moved")
                /\ UNCHANGED <<currentProject, stored, nextId>>
        /\ UNCHANGED <<selectedFileId, tabVars>>

renameFile(fileId, newName) ==
    LET files == arrs[currentProject.files]
        call == Call("renameFile", newName, fileId, NoId, "")
        updated == updateFileName(heap, files, fileId, newName)
    IN  /\ currentProject # NoProject
        /\ AwaitSaveProject(updated.heap, Append(arrs, updated.files),
                [currentProject EXCEPT !.files = Len(arrs) + 1],
                call, NoId, "File renamed")
        /\ UNCHANGED <<currentProject, stored, nextId, selectedFileId, tabVars>>

\* The write at the head of the queue completes and its handler runs on:
\* setCurrentProject(updatedProject) (updateFileContent has done it before
\* the write), deleteFile's setSelectedFileId(null), handleSaveFile's
\* setOpenTabs, the toast, the return.
saveProjectDone ==
    /\ pending # <<>>
    /\ LET e == Head(pending)
           project == IF e.op \in {"handleSaveFile", "updateFileContent"}
                      THEN currentProject ELSE e.project
       IN  /\ pending' = Tail(pending)
           /\ stored' = (e.snapshot.id :> e.snapshot) @@ stored
           /\ currentProject' = project
           /\ selectedFileId' =
                 IF e.op = "deleteFile" /\ e.selected = e.fileId
                 THEN NoId ELSE selectedFileId
           /\ openTabs' =
                 IF e.op = "handleSaveFile"
                 THEN [i \in 1..Len(openTabs) |->
                         IF openTabs[i].id = e.tabId
                         THEN [openTabs[i] EXCEPT !.content = e.content, !.isDirty = FALSE]
                         ELSE openTabs[i]]
                 ELSE openTabs
           /\ lastSaved' =
                 IF e.op = "handleSaveFile"
                 THEN [i \in 1..Len(lastSaved) |->
                         IF lastSaved[i].id = e.tabId
                         THEN [lastSaved[i] EXCEPT !.content = e.content]
                         ELSE lastSaved[i]]
                 ELSE lastSaved
           /\ log' = [log EXCEPT ![e.call] =
                        [@ EXCEPT !.done = TRUE, !.ret = e.ret, !.toast = e.toast,
                                  !.after = Tree(heap, arrs[project.files])]]
    /\ UNCHANGED <<heap, arrs, writes, nextId, activeTabId, editorContent, mountedTabId>>

\* The write at the head of the queue fails: saveProject rejects, at its
\* first setItem (nothing stored) or at the setItem of the projects list
\* (the project stored).  A handler of useFileSystem has no try/catch: the
\* rejection ends it before its setCurrentProject and reaches its caller.
\* handleSaveFile catches it and shows 'Save Failed'.
saveProjectFailed(projectStored) ==
    /\ pending # <<>>
    /\ LET e == Head(pending)
       IN  /\ pending' = Tail(pending)
           /\ stored' = IF projectStored
                         THEN (e.snapshot.id :> e.snapshot) @@ stored
                         ELSE stored
           /\ log' = [log EXCEPT ![e.call] =
                        [@ EXCEPT !.done = TRUE, !.threw = (e.op # "handleSaveFile"),
                                  !.toast = IF e.op = "handleSaveFile"
                                            THEN "Save Failed" ELSE "",
                                  !.after = Files]]
    /\ UNCHANGED <<heap, arrs, currentProject, writes, nextId, selectedFileId, tabVars>>

-----------------------------------------------------------------------------
(* StorageService.saveProject and deleteProject step by step: each `await`  *)
(* of localforage is a point where other calls run.  Here `pending` holds   *)
(* the calls of the service that are in flight, each with the await it is   *)
(* at and the list it has read.                                             *)

\* the id importProject gives the project it makes
ImportedProjectId == 100

\* the projects the callers save: the current project and an imported one,
\* under their first name or renamed
StoreProjects ==
    {[id |-> id, name |-> name, files |-> <<>>] :
        id \in {ProjectId, ImportedProjectId}, name \in {ProjectName, NameA}}

\* getProjectsList: the stored list, [] if there is none
getProjectsList ==
    IF ProjectsList \in DOMAIN stored THEN stored[ProjectsList] ELSE <<>>

\* projects.findIndex(p => p.id === project.id), 0 if none
RECURSIVE FindIndexFrom(_, _, _)
FindIndexFrom(projects, id, i) ==
    IF i > Len(projects) THEN 0
    ELSE IF projects[i].id = id THEN i
    ELSE FindIndexFrom(projects, id, i + 1)

\* saveProject: the list it has read, with the project's entry replaced or
\* pushed
WithSummary(projects, project) ==
    LET existingIndex == FindIndexFrom(projects, project.id, 1)
    IN  IF existingIndex > 0
        THEN [projects EXCEPT ![existingIndex] = Summary(project)]
        ELSE Append(projects, Summary(project))

\* a call of the service, suspended at its first await
StorageCall(op, id, project) ==
    /\ pending' = Append(pending,
            [op |-> op, call |-> Len(log) + 1, id |-> id, project |-> project,
             at |-> "item", projects |-> <<>>])
    /\ log' = Append(log, [Call(op, project.name, id, NoId, "") EXCEPT !.wrote = TRUE])
    /\ UNCHANGED <<heap, arrs, currentProject, stored, nextId, selectedFileId, tabVars>>

\* saveProject(project) up to `await localforage.setItem(project_<id>, project)`
saveProject(project) ==
    /\ StorageCall("saveProject", project.id, project)
    /\ writes' = writes + 1

\* deleteProject(projectId) up to `await localforage.removeItem(project_<id>)`
deleteProject(projectId) ==
    /\ StorageCall("deleteProject", projectId, NoProject)
    /\ UNCHANGED writes

\* the setItem / removeItem of the project has completed, and the call is at
\* `await this.getProjectsList()`
projectItemDone(k) ==
    /\ k \in 1..Len(pending)
    /\ pending[k].at = "item"
    /\ stored' = IF pending[k].op = "saveProject"
                 THEN (pending[k].id :> pending[k].project) @@ stored
                 ELSE [key \in DOMAIN stored \ {pending[k].id} |-> stored[key]]
    /\ pending' = [pending EXCEPT ![k].at = "list"]
    /\ UNCHANGED <<heap, arrs, currentProject, writes, nextId, log, selectedFileId,
                   tabVars>>

\* getProjectsList has resolved; the call changes the list it got and is at
\* `await localforage.setItem('projects_list', ...)`
projectsListRead(k) ==
    /\ k \in 1..Len(pending)
    /\ pending[k].at = "list"
    /\ LET projects == getProjectsList
           filteredProjects == SelectSeq(projects, LAMBDA p : p.id # pending[k].id)
       IN  pending' = [pending EXCEPT ![k].at = "write",
                           ![k].projects = IF pending[k].op = "saveProject"
                                           THEN WithSummary(projects, pending[k].project)
                                           ELSE filteredProjects]
    /\ UNCHANGED <<heap, arrs, currentProject, stored, writes, nextId, log,
                   selectedFileId, tabVars>>

\* the setItem of the list has completed, and the call returns
projectsListWritten(k) ==
    /\ k \in 1..Len(pending)
    /\ pending[k].at = "write"
    /\ stored' = (ProjectsList :> pending[k].projects) @@ stored
    /\ pending' = SubSeq(pending, 1, k - 1) \o SubSeq(pending, k + 1, Len(pending))
    /\ log' = [log EXCEPT ![pending[k].call].done = TRUE]
    /\ UNCHANGED <<heap, arrs, currentProject, writes, nextId, selectedFileId, tabVars>>

-----------------------------------------------------------------------------
(* Export and import: FileUtils.exportProjectAsZip and                      *)
(* FileUtils.importProjectFromZip.  An archive is the sequence of the       *)
(* entries of the JSZip object, in the order of its keys.                   *)

\* String.prototype.split('/')
RECURSIVE SplitFrom(_, _, _)
SplitFrom(s, i, part) ==
    IF i > Len(s) THEN <<part>>
    ELSE IF <<s[i]>> = Slash THEN <<part>> \o SplitFrom(s, i + 1, <<>>)
    ELSE SplitFrom(s, i + 1, Append(part, s[i]))

Split(s) == SplitFrom(s, 1, <<>>)

\* Array.prototype.join('/')
RECURSIVE Join(_)
Join(parts) ==
    IF parts = <<>> THEN <<>>
    ELSE IF Len(parts) = 1 THEN parts[1]
    ELSE parts[1] \o Slash \o Join(Tail(parts))

\* pathParts.slice(0, -1).join('/')
ParentPath(path) ==
    LET parts == Split(path) IN Join(SubSeq(parts, 1, Len(parts) - 1))

\* the index of the entry with the name, 0 if none
RECURSIVE ZipIndexFrom(_, _, _)
ZipIndexFrom(zip, name, i) ==
    IF i > Len(zip) THEN 0
    ELSE IF zip[i].name = name THEN i
    ELSE ZipIndexFrom(zip, name, i + 1)

\* JSZip: the folder entries zip.file creates for the folders of a path
RECURSIVE ZipWithFolder(_, _)
ZipWithFolder(zip, path) ==
    LET name == path \o Slash
        parent == ParentPath(path)
        zip1 == IF parent # <<>> THEN ZipWithFolder(zip, parent) ELSE zip
    IN  IF ZipIndexFrom(zip, name, 1) # 0 THEN zip
        ELSE Append(zip1, [name |-> name, dir |-> TRUE, content |-> ""])

\* zip.file(filePath, file.content): a new entry, or a new value for the
\* entry that has the name
ZipFile(zip, filePath, content) ==
    LET parent == ParentPath(filePath)
        zip1 == IF parent # <<>> THEN ZipWithFolder(zip, parent) ELSE zip
        i == ZipIndexFrom(zip1, filePath, 1)
        entry == [name |-> filePath, dir |-> FALSE, content |-> content]
    IN  IF i # 0 THEN [zip1 EXCEPT ![i] = entry] ELSE Append(zip1, entry)

\* exportProjectAsZip's addFilesToZip, over a tree value
RECURSIVE addFilesToZip(_, _, _)
addFilesToZip(zip, files, currentPath) ==
    IF files = <<>> THEN zip
    ELSE LET file == Head(files)
             filePath == IF currentPath # <<>>
                         THEN currentPath \o Slash \o file.name ELSE file.name
             zip1 == IF file.type = "folder"
                     THEN addFilesToZip(zip, file.children, filePath)
                     ELSE ZipFile(zip, filePath, file.content)
         IN  addFilesToZip(zip1, Tail(files), currentPath)

exportProjectAsZip(files) == addFilesToZip(<<>>, files, <<>>)

\* importProjectFromZip, first pass: the folder paths of one entry's path
RECURSIVE FoldersOfParts(_, _, _)
FoldersOfParts(folders, pathParts, i) ==
    IF i > Len(pathParts) - 1 THEN folders
    ELSE LET folderPath == Join(SubSeq(pathParts, 1, i))
             has == \E k \in 1..Len(folders) : folders[k] = folderPath
         IN  FoldersOfParts(IF has THEN folders ELSE Append(folders, folderPath),
                            pathParts, i + 1)

\* importProjectFromZip, first pass: the keys of the folders map, in order
RECURSIVE FolderPaths(_, _)
FolderPaths(zip, folders) ==
    IF zip = <<>> THEN folders
    ELSE FolderPaths(Tail(zip), FoldersOfParts(folders, Split(Head(zip).name), 1))

\* importProjectFromZip, second and third pass: the children list of the
\* folder with the path (the root list for isRoot): the files pushed in the
\* second pass, then the folders pushed in the third.  Folders take the
\* ids firstId, firstId + 1, ... and the files the ids after them.
RECURSIVE ImportedList(_, _, _, _, _, _)
ImportedList(zip, folders, firstId, isRoot, path, id) ==
    LET entries == SelectSeq(zip, LAMBDA e : ~e.dir)
        has(p) == \E k \in 1..Len(folders) : folders[k] = p
        fileAt(k) ==
            LET parts == Split(entries[k].name)
            IN  FileItem(firstId + Len(folders) + k - 1, parts[Len(parts)], "file",
                         entries[k].content, id, entries[k].name, <<>>)
        fileHere(k) ==
            LET parentPath == ParentPath(entries[k].name)
                attached == parentPath # <<>> /\ has(parentPath)
            IN  IF isRoot THEN ~attached ELSE attached /\ parentPath = path
        folderAt(k) ==
            LET parts == Split(folders[k])
            IN  FileItem(firstId + k - 1, parts[Len(parts)], "folder", "", id, folders[k],
                         ImportedList(zip, folders, firstId, FALSE, folders[k],
                                      firstId + k - 1))
        folderHere(k) ==
            LET nested == \E j \in 1..Len(folders[k]) : <<folders[k][j]>> = Slash
            IN  IF isRoot THEN ~nested
                ELSE nested /\ ParentPath(folders[k]) = path
        fileIdx == SelectSeq([k \in 1..Len(entries) |-> k], fileHere)
        folderIdx == SelectSeq([k \in 1..Len(folders) |-> k], folderHere)
    IN  [k \in 1..Len(fileIdx) |-> fileAt(fileIdx[k])]
        \o [k \in 1..Len(folderIdx) |-> folderAt(folderIdx[k])]

importProjectFromZip(zip, firstId) ==
    ImportedList(zip, FolderPaths(zip, <<>>), firstId, TRUE, <<>>, NoId)

\* The project is exported and the archive is given to the importer: the
\* call's `after` is the tree importProjectFromZip returns.
exportThenImport ==
    LET zip == exportProjectAsZip(Files)
        files == importProjectFromZip(zip, nextId)
        call == Call("exportThenImport", <<>>, NoId, NoId, "")
    IN  /\ currentProject # NoProject
        /\ log' = Append(log, [call EXCEPT !.done = TRUE, !.after = files,
                                           !.toast = "Project exported"])
        /\ nextId' = nextId + Cardinality(Nodes(files))
        /\ UNCHANGED <<heap, arrs, currentProject, stored, writes, pending,
                       selectedFileId, tabVars>>

-----------------------------------------------------------------------------
(* The open-tab coordinator (IDE page) and the editing surface              *)

EditorTab(id, fileId, title, language, content, isDirty) ==
    [id |-> id, fileId |-> fileId, title |-> title, language |-> language,
     content |-> content, isDirty |-> isDirty]

\* openTabs.find(t => t.id === tabId): its index, 0 if none
RECURSIVE TabIndexFrom(_, _, _)
TabIndexFrom(tabs, tabId, i) ==
    IF i > Len(tabs) THEN 0
    ELSE IF tabs[i].id = tabId THEN i
    ELSE TabIndexFrom(tabs, tabId, i + 1)

TabIndex(tabs, tabId) == TabIndexFrom(tabs, tabId, 1)

\* the search for a file's tab that compares the tab's own id with the file id
RECURSIVE TabOfFileFromByTabId(_, _, _)
TabOfFileFromByTabId(tabs, fileId, i) ==
    IF i > Len(tabs) THEN 0
    ELSE IF tabs[i].id = fileId THEN i
    ELSE TabOfFileFromByTabId(tabs, fileId, i + 1)

\* openTabs.find(tab => tab.fileId === fileId): its index, 0 if none
RECURSIVE TabOfFileFrom(_, _, _)
TabOfFileFrom(tabs, fileId, i) ==
    IF i > Len(tabs) THEN 0
    ELSE IF tabs[i].fileId = fileId THEN i
    ELSE TabOfFileFrom(tabs, fileId, i + 1)

\* handleEditorChange's setOpenTabs, for the activeTabId the function closed over
MarkChanged(tabs, tabId, value) ==
    [i \in 1..Len(tabs) |->
        IF tabs[i].id = tabId
        THEN [tabs[i] EXCEPT !.content = value, !.isDirty = (tabs[i].content # value)]
        ELSE tabs[i]]

\* MonacoEditor after a render with the tabs, active tab and editorContent
\* given.  The page renders it while there is an active tab.  Its mount
\* effect (dependencies []) registers onDidChangeModelContent once, with the
\* onChange of that render: the handleEditorChange that closed over the
\* activeTabId of the render that mounted the editor.  While it stays
\* mounted, a new `value` that differs from the editor's text is put into
\* the editor with setValue, which raises the change event and so calls
\* that handleEditorChange with the new value.
EditorEffects(tabs, active, content) ==
    IF TabIndex(tabs, active) = 0 THEN [tabs |-> tabs, mounted |-> NoId]
    ELSE IF mountedTabId = NoId THEN [tabs |-> tabs, mounted |-> active]
    ELSE IF content # editorContent
    THEN [tabs |-> MarkChanged(tabs, mountedTabId, content), mounted |-> mountedTabId]
    ELSE [tabs |-> tabs, mounted |-> mountedTabId]

\* a handler of the page that ends without a write
TabReturn(call, toast) ==
    /\ log' = Append(log, [call EXCEPT !.done = TRUE, !.toast = toast, !.after = Files])
    /\ UNCHANGED <<heap, arrs, currentProject, stored, writes, pending>>

handleFileSelect(fileId) ==
    LET files == arrs[currentProject.files]
        call == Call("handleFileSelect", <<>>, fileId, NoId, "")
        file == findFile(heap, files, fileId)
        existingTab == TabOfFileFrom(openTabs, fileId, 1)
        newTab == EditorTab(nextId, heap[file].id, heap[file].name,
                            GetFileExtension(heap[file].name), heap[file].content, FALSE)
    IN  IF file = NoAddr \/ heap[file].type # "file"
        THEN /\ TabReturn(call, "File Error")
             /\ UNCHANGED <<selectedFileId, nextId, tabVars>>
        ELSE IF existingTab # 0
        THEN LET shown == EditorEffects(openTabs, openTabs[existingTab].id,
                                        openTabs[existingTab].content)
             IN  /\ selectedFileId' = fileId
                 /\ activeTabId' = openTabs[existingTab].id
                 /\ editorContent' = openTabs[existingTab].content
                 /\ openTabs' = shown.tabs
                 /\ mountedTabId' = shown.mounted
                 /\ TabReturn(call, "File Opened")
                 /\ UNCHANGED <<nextId, lastSaved>>
        ELSE LET shown == EditorEffects(Append(openTabs, newTab), newTab.id, newTab.content)
             IN  /\ selectedFileId' = fileId
                 /\ activeTabId' = newTab.id
                 /\ editorContent' = newTab.content
                 /\ openTabs' = shown.tabs
                 /\ mountedTabId' = shown.mounted
                 /\ nextId' = nextId + 1
                 /\ lastSaved' = Append(lastSaved, [id |-> newTab.id, content |-> newTab.content])
                 /\ TabReturn(call, "File Opened")

\* The user changes the editor's text to value: the editor calls the
\* handleEditorChange it was mounted with.
handleEditorChange(value) ==
    /\ mountedTabId # NoId
    /\ value # editorContent
    /\ editorContent' = value
    /\ openTabs' = MarkChanged(openTabs, mountedTabId, value)
    /\ TabReturn(Call("handleEditorChange", <<>>, activeTabId, NoId, value), "")
    /\ UNCHANGED <<selectedFileId, nextId, activeTabId, mountedTabId, lastSaved>>

\* useFileSystem.updateFileContent, as handleSaveFile awaits it
updateFileContent(fileId, content, call, toast) ==
    LET files == arrs[currentProject.files]
        updated == updateInFiles(heap, files, fileId, content)
        updatedProject == [currentProject EXCEPT !.files = Len(arrs) + 1]
    IN  /\ currentProject # NoProject
        /\ currentProject' = updatedProject
        /\ AwaitSaveProject(updated.heap, Append(arrs, updated.files),
                            updatedProject, call, NoId, toast)

\* updateFileContent called by itself (the hook returns it to its users)
updateFileContentCall(fileId, content) ==
    /\ updateFileContent(fileId, content,
            Call("updateFileContent", <<>>, fileId, NoId, content), "")
    /\ UNCHANGED <<stored, nextId, selectedFileId, tabVars>>

handleSaveFile ==
    LET call == Call("handleSaveFile", <<>>, selectedFileId, NoId, editorContent)
        tab == TabIndex(openTabs, activeTabId)
    IN  /\ IF activeTabId = NoId \/ selectedFileId = NoId
           THEN /\ TabReturn(call, "Save Error")
                /\ UNCHANGED nextId
           ELSE IF tab = 0
           THEN /\ TabReturn(call, "Save Error")
                /\ UNCHANGED nextId
           ELSE IF ~openTabs[tab].isDirty
           THEN /\ TabReturn(call, "No Changes")
                /\ UNCHANGED nextId
           ELSE /\ updateFileContent(selectedFileId, editorContent, call, "File Saved")
                /\ UNCHANGED <<stored, nextId>>
        /\ UNCHANGED <<selectedFileId, tabVars>>

\* the languages FileUtils.formatCode has a Prettier parser for
ParserLanguages ==
    { <<"j", "a", "v", "a", "s", "c", "r", "i", "p", "t">>, <<"j", "s", "x">>,
      <<"t", "y", "p", "e", "s", "c", "r", "i", "p", "t">>, <<"t", "s", "x">>,
      <<"h", "t", "m", "l">>, <<"c", "s", "s">>, <<"s", "c", "s", "s">>,
      <<"s", "a", "s", "s">>, <<"j", "s", "o", "n">>,
      <<"m", "a", "r", "k", "d", "o", "w", "n">> }

\* the texts Prettier leaves as they are: the empty text, and the texts it
\* has printed, which end with a line break
FormattedTexts ==
    {""} \cup {content \o "\n" :
                  content \in Contents \cup {DefaultHeap[i].content : i \in 1..Len(DefaultHeap)}}

\* prettier.format: the text, printed with a line break at its end
PrettierFormat(content) ==
    IF content \in FormattedTexts THEN content ELSE content \o "\n"

\* FileUtils.formatCode: the texts it may resolve to.  Without a parser for
\* the language it returns the content; with one it returns what Prettier
\* prints, or the content when Prettier throws (a text it cannot parse).
formatCode(content, language) ==
    IF language \in ParserLanguages THEN {PrettierFormat(content), content}
    ELSE {content}

\* handleFormatCode up to its `await FileUtils.formatCode(...)`: the call is
\* suspended with the activeTabId, openTabs and editorContent of its render
\* (the call's record holds them).
handleFormatCode ==
    LET call == Call("handleFormatCode", <<>>, selectedFileId, NoId, editorContent)
    IN  /\ IF activeTabId = NoId \/ TabIndex(openTabs, activeTabId) = 0
           THEN TabReturn(call, "")
           ELSE /\ log' = Append(log, call)
                /\ UNCHANGED <<heap, arrs, currentProject, stored, writes, pending>>
        /\ UNCHANGED <<selectedFileId, nextId, tabVars>>

\* formatCode has resolved for the suspended call i, and handleFormatCode
\* runs on: setEditorContent(formattedContent) and, if the text differs from
\* the content the tab had, setOpenTabs for the tab that was active at the
\* call; the editor is rendered with the new value.
formatCodeDone(i) ==
    /\ i \in 1..Len(log)
    /\ log[i].op = "handleFormatCode" /\ ~log[i].done
    /\ LET tab == log[i].tabs[TabIndex(log[i].tabs, log[i].active)]
       IN  \E formattedContent \in formatCode(log[i].content, tab.language) :
              LET tabs == IF formattedContent # tab.content
                          THEN [t \in 1..Len(openTabs) |->
                                  IF openTabs[t].id = log[i].active
                                  THEN [openTabs[t] EXCEPT !.content = formattedContent,
                                                           !.isDirty = TRUE]
                                  ELSE openTabs[t]]
                          ELSE openTabs
                  shown == EditorEffects(tabs, activeTabId, formattedContent)
              IN  /\ editorContent' = formattedContent
                  /\ openTabs' = shown.tabs
                  /\ mountedTabId' = shown.mounted
                  /\ log' = [log EXCEPT ![i] = [@ EXCEPT !.done = TRUE,
                                                         !.toast = "Code Formatted",
                                                         !.after = Files]]
    /\ UNCHANGED <<heap, arrs, currentProject, stored, writes, pending, nextId,
                   selectedFileId, activeTabId, lastSaved>>

\* settings.autoSave: the default settings enable it
autoSave == TRUE

\* The auto-save effect of the page.  Every render that changed
\* editorContent, activeTabId, openTabs or handleSaveFile clears the timer
\* and, with auto-save enabled, an active tab and a non-empty
\* editorContent, starts a new one.  This is the timeout, one second after
\* the last such render: it calls handleSaveFile if the active tab's content
\* differs from editorContent and the tab is dirty, and does nothing
\* otherwise.  A timer that has run out is not started again before the
\* next change.
autoSaveTimeout ==
    LET tab == TabIndex(openTabs, activeTabId)
    IN  /\ autoSave /\ activeTabId # NoId /\ editorContent # ""
        /\ log # <<>> /\ log[Len(log)].op # "autoSaveTimeout"
        /\ IF /\ tab # 0
              /\ openTabs[tab].content # editorContent
              /\ openTabs[tab].isDirty
           THEN handleSaveFile
           ELSE /\ TabReturn(Call("autoSaveTimeout", <<>>, selectedFileId, NoId,
                                  editorContent), "")
                /\ UNCHANGED <<selectedFileId, nextId, tabVars>>

\* handleCloseTab with a closeTab that activates the first remaining tab
handleCloseTabActivatesFirst(tabId) ==
    LET call == Call("handleCloseTab", <<>>, tabId, NoId, "")
        tab == TabIndex(openTabs, tabId)
        newTabs == SelectSeq(openTabs, LAMBDA t : t.id # tabId)
        nextTab == newTabs[1]
        active == IF activeTabId # tabId THEN activeTabId
                  ELSE IF newTabs # <<>> THEN nextTab.id ELSE NoId
        content == IF activeTabId # tabId THEN editorContent
                   ELSE IF newTabs # <<>> THEN nextTab.content ELSE ""
        shown == EditorEffects(newTabs, active, content)
    IN  IF tab = 0
        THEN /\ TabReturn(call, "Error")
             /\ UNCHANGED <<selectedFileId, nextId, tabVars>>
        ELSE /\ openTabs' = shown.tabs
             /\ mountedTabId' = shown.mounted
             /\ activeTabId' = active
             /\ editorContent' = content
             /\ selectedFileId' =
                   IF activeTabId # tabId THEN selectedFileId
                   ELSE IF newTabs # <<>> THEN nextTab.fileId ELSE NoId
             /\ lastSaved' = SelectSeq(lastSaved, LAMBDA t : t.id # tabId)
             /\ TabReturn(call, "Tab Closed")
             /\ UNCHANGED nextId

\* handleCloseTab and the closeTab it ends in (for a tab with unsaved
\* changes: once the user has confirmed the dialog)
handleCloseTab(tabId) ==
    LET call == Call("handleCloseTab", <<>>, tabId, NoId, "")
        tab == TabIndex(openTabs, tabId)
        newTabs == SelectSeq(openTabs, LAMBDA t : t.id # tabId)
        nextTab == newTabs[Len(newTabs)]
        active == IF activeTabId # tabId THEN activeTabId
                  ELSE IF newTabs # <<>> THEN nextTab.id ELSE NoId
        content == IF activeTabId # tabId THEN editorContent
                   ELSE IF newTabs # <<>> THEN nextTab.content ELSE ""
        shown == EditorEffects(newTabs, active, content)
    IN  IF tab = 0
        THEN /\ TabReturn(call, "Error")
             /\ UNCHANGED <<selectedFileId, nextId, tabVars>>
        ELSE /\ openTabs' = shown.tabs
             /\ mountedTabId' = shown.mounted
             /\ activeTabId' = active
             /\ editorContent' = content
             /\ selectedFileId' =
                   IF activeTabId # tabId THEN selectedFileId
                   ELSE IF newTabs # <<>> THEN nextTab.fileId ELSE NoId
             /\ lastSaved' = SelectSeq(lastSaved, LAMBDA t : t.id # tabId)
             /\ TabReturn(call, "Tab Closed")
             /\ UNCHANGED nextId

handleTabSwitch(tabId) ==
    LET call == Call("handleTabSwitch", <<>>, tabId, NoId, "")
        tab == TabIndex(openTabs, tabId)
        shown == EditorEffects(openTabs, tabId, openTabs[tab].content)
    IN  IF tab = 0
        THEN /\ TabReturn(call, "")
             /\ UNCHANGED <<selectedFileId, nextId, tabVars>>
        ELSE /\ activeTabId' = tabId
             /\ editorContent' = openTabs[tab].content
             /\ selectedFileId' = openTabs[tab].fileId
             /\ openTabs' = shown.tabs
             /\ mountedTabId' = shown.mounted
             /\ TabReturn(call, "")
             /\ UNCHANGED <<nextId, lastSaved>>

-----------------------------------------------------------------------------
(* Specifications *)

\* no handler is suspended: every call made so far has returned
Idle == pending = <<>>

\* ids a caller may pass: those generated so far, whether a node still has
\* them or not, and one that no node ever had
SomeIds == (ProjectId + 1)..nextId

\* The tree engine, one call at a time: each call is made when the one
\* before has returned.
Next ==
    \/ /\ Idle /\ Len(log) < MaxOps
       /\ \E name \in Names, parentId \in SomeIds \cup {NoId} : createFile(name, parentId)
    \/ /\ Idle /\ Len(log) < MaxOps
       /\ \E name \in Names, parentId \in SomeIds \cup {NoId} : createFolder(name, parentId)
    \/ /\ Idle /\ Len(log) < MaxOps
       /\ \E fileId \in SomeIds : deleteFile(fileId)
    \/ /\ Idle /\ Len(log) < MaxOps
       /\ \E fileId \in SomeIds : duplicateFile(fileId)
    \/ /\ Idle /\ Len(log) < MaxOps
       /\ \E fileId \in SomeIds, newParentId \in SomeIds \cup {NoId} :
             moveFile(fileId, newParentId)
    \/ /\ Idle /\ Len(log) < MaxOps
       /\ \E fileId \in SomeIds, newName \in Names : renameFile(fileId, newName)
    \/ saveProjectDone

Spec == Init /\ [][Next]_vars

\* the calls of the history that a handler of the tree engine served
TreeCalls == SelectSeq(log, LAMBDA c : c.op \in {"deleteFile", "renameFile"})

\* The page: files are opened, edited, saved and closed, and the tree engine
\* deletes and renames nodes, one call at a time.
NextTabs ==
    \/ /\ Idle /\ Len(log) < MaxTabOps
       /\ \E fileId \in SomeIds : handleFileSelect(fileId)
    \/ /\ Idle /\ Len(log) < MaxTabOps
       /\ \E value \in Contents : handleEditorChange(value)
    \/ /\ Idle /\ Len(log) < MaxTabOps
       /\ handleSaveFile
    \/ /\ Idle /\ Len(log) < MaxTabOps
       /\ \E tabId \in {openTabs[i].id : i \in 1..Len(openTabs)} : handleCloseTab(tabId)
    \/ /\ Idle /\ Len(log) < MaxTabOps
       /\ \E tabId \in {openTabs[i].id : i \in 1..Len(openTabs)} : handleTabSwitch(tabId)
    \/ /\ Idle /\ Len(log) < MaxTabOps /\ Len(TreeCalls) < MaxTabTreeOps
       /\ \E fileId \in Ids(Files) : deleteFile(fileId)
    \/ /\ Idle /\ Len(log) < MaxTabOps /\ Len(TreeCalls) < MaxTabTreeOps
       /\ \E fileId \in Ids(Files), newName \in Names : renameFile(fileId, newName)
    \/ saveProjectDone

SpecTabs == Init /\ [][NextTabs]_vars

\* The tree engine with overlapping calls: a handler may be called while
\* the writes of earlier calls are pending.  The handlers of a render close
\* over the currentProject of that render, which is the state's.
NextAsync ==
    \/ /\ Len(log) < MaxAsyncOps
       /\ \E name \in Names, parentId \in SomeIds \cup {NoId} : createFile(name, parentId)
    \/ /\ Len(log) < MaxAsyncOps
       /\ \E name \in Names, parentId \in SomeIds \cup {NoId} : createFolder(name, parentId)
    \/ /\ Len(log) < MaxAsyncOps
       /\ \E fileId \in SomeIds : deleteFile(fileId)
    \/ /\ Len(log) < MaxAsyncOps
       /\ \E fileId \in SomeIds : duplicateFile(fileId)
    \/ /\ Len(log) < MaxAsyncOps
       /\ \E fileId \in SomeIds, newParentId \in SomeIds \cup {NoId} :
             moveFile(fileId, newParentId)
    \/ /\ Len(log) < MaxAsyncOps
       /\ \E fileId \in SomeIds, newName \in Names : renameFile(fileId, newName)
    \/ /\ Len(log) < MaxAsyncOps
       /\ \E fileId \in SomeIds, content \in Contents :
             updateFileContentCall(fileId, content)
    \/ saveProjectDone

SpecAsync == Init /\ [][NextAsync]_vars

\* The tree engine, one call at a time, with a store whose writes may fail
\* (quota exceeded, serialization error).
NextFail ==
    \/ /\ Idle /\ Len(log) < MaxFailOps
       /\ \E name \in Names, parentId \in SomeIds \cup {NoId} : createFile(name, parentId)
    \/ /\ Idle /\ Len(log) < MaxFailOps
       /\ \E name \in Names, parentId \in SomeIds \cup {NoId} : createFolder(name, parentId)
    \/ /\ Idle /\ Len(log) < MaxFailOps
       /\ \E fileId \in SomeIds : deleteFile(fileId)
    \/ /\ Idle /\ Len(log) < MaxFailOps
       /\ \E fileId \in SomeIds, newName \in Names : renameFile(fileId, newName)
    \/ /\ Idle /\ Len(log) < MaxFailOps
       /\ \E fileId \in SomeIds, content \in Contents :
             updateFileContentCall(fileId, content)
    \/ saveProjectDone
    \/ \E projectStored \in BOOLEAN : saveProjectFailed(projectStored)

SpecFail == Init /\ [][NextFail]_vars

\* The tree engine, one call at a time, renaming files to names with dots
\* and duplicating them.
NextNames ==
    \/ /\ Idle /\ Len(log) < MaxNameOps
       /\ \E fileId \in SomeIds, newName \in DottedNames : renameFile(fileId, newName)
    \/ /\ Idle /\ Len(log) < MaxNameOps
       /\ \E fileId \in SomeIds : duplicateFile(fileId)
    \/ saveProjectDone

SpecNames == Init /\ [][NextNames]_vars

\* The page with auto-save and no manual save: files are opened, edited and
\* closed, nodes are renamed, and the auto-save timer runs out.
NextAutoSave ==
    \/ /\ Idle /\ Len(log) < MaxAutoOps
       /\ \E fileId \in SomeIds : handleFileSelect(fileId)
    \/ /\ Idle /\ Len(log) < MaxAutoOps
       /\ \E value \in Contents : handleEditorChange(value)
    \/ /\ Idle /\ Len(log) < MaxAutoOps
       /\ \E tabId \in {openTabs[i].id : i \in 1..Len(openTabs)} : handleCloseTab(tabId)
    \/ /\ Idle /\ Len(log) < MaxAutoOps
       /\ \E tabId \in {openTabs[i].id : i \in 1..Len(openTabs)} : handleTabSwitch(tabId)
    \/ /\ Idle /\ Len(log) < MaxAutoOps /\ Len(TreeCalls) < MaxTabTreeOps
       /\ \E fileId \in Ids(Files), newName \in Names : renameFile(fileId, newName)
    \/ /\ Idle /\ Len(log) < MaxAutoOps
       /\ autoSaveTimeout
    \/ saveProjectDone

SpecAutoSave == Init /\ [][NextAutoSave]_vars

\* Content updates among creations and deletions, with overlapping calls:
\* a call may be made while the writes of earlier calls are pending.
NextContent ==
    \/ /\ Len(log) < MaxContentOps
       /\ \E fileId \in SomeIds, content \in Contents :
             updateFileContentCall(fileId, content)
    \/ /\ Len(log) < MaxContentOps
       /\ \E name \in Names, parentId \in SomeIds \cup {NoId} : createFile(name, parentId)
    \/ /\ Len(log) < MaxContentOps
       /\ \E fileId \in SomeIds : deleteFile(fileId)
    \/ saveProjectDone

SpecContent == Init /\ [][NextContent]_vars

\* The page with formats and saves that complete later: a handler may be
\* called while a format or the write of a save is pending.
NextFormat ==
    \/ /\ Len(log) < MaxFormatOps
       /\ \E fileId \in Ids(Files) : handleFileSelect(fileId)
    \/ /\ Len(log) < MaxFormatOps
       /\ \E value \in Contents : handleEditorChange(value)
    \/ /\ Len(log) < MaxFormatOps
       /\ \E tabId \in {openTabs[i].id : i \in 1..Len(openTabs)} : handleTabSwitch(tabId)
    \/ /\ Len(log) < MaxFormatOps
       /\ handleFormatCode
    \/ \E i \in 1..Len(log) : formatCodeDone(i)
    \/ /\ Len(log) < MaxFormatOps
       /\ handleSaveFile
    \/ saveProjectDone

SpecFormat == Init /\ [][NextFormat]_vars

\* The storage service with callers that do not wait for each other.
NextStore ==
    \/ /\ Len(log) < MaxStoreOps
       /\ \E project \in StoreProjects : saveProject(project)
    \/ /\ Len(log) < MaxStoreOps
       /\ \E projectId \in {ProjectId, ImportedProjectId} : deleteProject(projectId)
    \/ \E k \in 1..Len(pending) : projectItemDone(k)
    \/ \E k \in 1..Len(pending) : projectsListRead(k)
    \/ \E k \in 1..Len(pending) : projectsListWritten(k)

SpecStore == Init /\ [][NextStore]_vars

\* The tree engine, one call at a time, and exports followed by imports.
NextZip ==
    \/ /\ Idle /\ Len(log) < MaxZipOps
       /\ \E name \in Names, parentId \in SomeIds \cup {NoId} : createFile(name, parentId)
    \/ /\ Idle /\ Len(log) < MaxZipOps
       /\ \E name \in Names, parentId \in SomeIds \cup {NoId} : createFolder(name, parentId)
    \/ /\ Idle /\ Len(log) < MaxZipOps
       /\ \E fileId \in SomeIds, newName \in Names : renameFile(fileId, newName)
    \/ /\ Idle /\ Len(log) < MaxZipOps
       /\ exportThenImport
    \/ saveProjectDone

SpecZip == Init /\ [][NextZip]_vars

-----------------------------------------------------------------------------
(* Properties of the project tree engine *)

\* the calls of the history that have returned, by their index in log
Returned == {i \in 1..Len(log) : log[i].done}

\* every node's parentId is the id of the folder whose children hold it
ParentLinksAgree(tree) == \A e \in Nodes(tree) : e.parentId = e.owner

\* no node's id occurs again among its descendants
NoNodeIsOwnAncestor(tree) ==
    \A e \in Nodes(tree) :
        e.id \notin Ids(Subtree(tree, e.id)[1].children)

\* C1: when a create, delete, rename, move or duplicate call has returned,
\* every node's parentId is the id of the folder that contains it (none for
\* a node of the root list) and no node is its own ancestor.
C1_ParentLinks ==
    /\ Idle => ParentLinksAgree(Files) /\ NoNodeIsOwnAncestor(Files)
    /\ \A i \in Returned :
          ParentLinksAgree(log[i].after) /\ NoNodeIsOwnAncestor(log[i].after)

\* C1's case: a moveFile has returned and has put a node of the root list
\* into a folder, and a createFile has returned a node it put into a folder
C1_Witness ==
    /\ Idle
    /\ \E i \in Returned :
          /\ log[i].op = "moveFile"
          /\ \E b \in Nodes(log[i].before), a \in Nodes(log[i].after) :
                /\ b.id = log[i].id /\ b.owner = NoId
                /\ a.id = log[i].id /\ a.owner = log[i].parent /\ a.owner # NoId
    /\ \E i \in Returned :
          /\ log[i].op = "createFile"
          /\ \E a \in Nodes(log[i].after) :
                a.id = log[i].ret /\ a.owner = log[i].parent /\ a.owner # NoId

\* C2: a moveFile of a folder whose target is the folder itself or a node
\* inside it fails and leaves the tree as it was.
C2_MoveIntoSelfRejected ==
    \A i \in Returned :
        (/\ log[i].op = "moveFile"
         /\ Subtree(log[i].before, log[i].id) # <<>>
         /\ Subtree(log[i].before, log[i].id)[1].type = "folder"
         /\ log[i].parent \in Ids(Subtree(log[i].before, log[i].id)))
        => /\ log[i].after = log[i].before
           /\ log[i].toast # "File moved"

\* C3: when a call has returned, no two files of one folder (or of the root
\* list) have the same name.
C3_SiblingFileNamesUnique ==
    Idle => \A e1, e2 \in Nodes(Files) :
                (/\ e1.type = "file" /\ e2.type = "file"
                 /\ e1.owner = e2.owner /\ e1.name = e2.name)
                => e1.pos = e2.pos

\* C4: when a call has returned, every node's stored path is the names on
\* the chain from the root list to the node, joined by '/'.
C4_PathIsNameChain ==
    Idle => \A e \in Nodes(Files) : e.path = e.chain

\* C10: deleteFile is idempotent: a deleteFile of an id no node has leaves
\* the tree as it was and still issues a write, and a second deleteFile of
\* the id a deleteFile has removed leaves the tree as the first left it.
C10_DeleteIdempotent ==
    \A i \in Returned :
        log[i].op = "deleteFile"
        => /\ log[i].wrote
           /\ log[i].id \notin Ids(log[i].after)
           /\ (log[i].id \notin Ids(log[i].before) => log[i].after = log[i].before)
           /\ \A j \in Returned :
                 (/\ j = i + 1 /\ log[j].op = "deleteFile" /\ log[j].id = log[i].id)
                 => log[j].after = log[i].after /\ log[j].wrote

\* C10's case: a node of the tree was deleted, then deleted again, and the
\* second call's write has completed
C10_Witness ==
    /\ Idle
    /\ Len(log) = 2
    /\ log[1].op = "deleteFile" /\ log[2].op = "deleteFile"
    /\ log[1].id = log[2].id
    /\ log[1].id \in Ids(log[1].before)
    /\ log[1].after # log[1].before
    /\ log[2].wrote /\ log[2].done
    /\ writes = 2
    /\ stored[ProjectId].files = log[2].after

\* C9: two createFile calls with the same name and the same parent (the root
\* list or a folder), where no file of the parent had the name, return the
\* same id, and the tree has gained one node when both have returned; the
\* second call may be made while the first call's write is pending.
C9_CreateTwiceOneNode ==
    \A i, j \in Returned :
        (/\ j = i + 1
         /\ log[i].op = "createFile" /\ log[j].op = "createFile"
         /\ log[i].name = log[j].name /\ log[i].parent = log[j].parent
         /\ \/ log[i].parent = NoId
            \/ \E e \in Nodes(log[i].before) :
                  e.id = log[i].parent /\ e.type = "folder"
         /\ ~ \E e \in Nodes(log[i].before) :
                  /\ e.owner = log[i].parent /\ e.type = "file"
                  /\ e.name = log[i].name)
        => /\ log[i].ret # NoId
           /\ log[j].ret = log[i].ret
           /\ Cardinality(Nodes(log[j].after)) = Cardinality(Nodes(log[i].before)) + 1

-----------------------------------------------------------------------------
(* Properties of the open-tab coordinator *)

\* the tab with the id among the tabs, as a sequence of at most one tab
TabWithId(tabs, tabId) == SelectSeq(tabs, LAMBDA t : t.id = tabId)

\* C5: when a call has returned, every open tab is bound to a file id that
\* a node of the tree has: a tab opened for F is gone once deleteFile has
\* removed F or a folder above F.
C5_TabsBoundToFiles ==
    Idle => \A i \in 1..Len(openTabs) : openTabs[i].fileId \in Ids(Files)

\* C6: for every open tab, isDirty is true exactly if the tab's working
\* content differs from the content at its last save, or at its opening if
\* it was never saved.
C6_DirtyIffDiffers ==
    \A i \in 1..Len(openTabs) :
        \A j \in 1..Len(lastSaved) :
            lastSaved[j].id = openTabs[i].id
            => (openTabs[i].isDirty <=> openTabs[i].content # lastSaved[j].content)

\* C7: an edit of the active tab, opened with content x and clean, to a
\* y # x makes the tab dirty; a save after that edit which completes makes
\* it clean and leaves the node of the tab's file with content y.
C7_EditThenSave ==
    LET n == Len(log)
        edited == TabWithId(log[n].tabs, log[n].active)
        saved == TabWithId(openTabs, log[n].active)
    IN  /\ (/\ n >= 1 /\ Idle
            /\ log[n].op = "handleEditorChange"
            /\ edited # <<>>
            /\ ~edited[1].isDirty
            /\ edited[1].content # log[n].content)
           => \A t \in 1..Len(openTabs) :
                 openTabs[t].id = log[n].active => openTabs[t].isDirty
        /\ (/\ n >= 2 /\ Idle
            /\ log[n].op = "handleSaveFile" /\ log[n].toast = "File Saved"
            /\ log[n - 1].op = "handleEditorChange"
            /\ log[n - 1].active = log[n].active)
           => /\ saved # <<>>
              /\ ~saved[1].isDirty
              /\ \E e \in Nodes(Files) :
                    e.id = saved[1].fileId /\ e.content = log[n - 1].content

\* C8: a save of a dirty tab whose file no node of the tree has is reported
\* as a failure: no "File Saved" is signalled and the tab stays dirty.
C8_SaveOfMissingFileFails ==
    LET n == Len(log)
        tab == TabWithId(log[n].tabs, log[n].active)
        now == TabWithId(openTabs, log[n].active)
    IN  (/\ n >= 1 /\ Idle
         /\ log[n].op = "handleSaveFile"
         /\ tab # <<>>
         /\ tab[1].isDirty
         /\ tab[1].fileId \notin Ids(log[n].before))
        => /\ log[n].toast # "File Saved"
           /\ now # <<>> /\ now[1].isDirty

-----------------------------------------------------------------------------
(* Properties of the synchronization with the store *)

\* the operations that add a node
CreateOps == {"createFile", "createFolder"}

\* C11: while the write of a mutation is pending, the current project is
\* the new tree, the one the write carries.
C11_NewTreeBeforeWrite ==
    Len(pending) = 1 => Files = pending[1].snapshot.files

\* C13: when mutations were issued while earlier writes were pending and all
\* have returned, the tree has the effect of each: after creations only,
\* every node a creation returned is in the tree and in the stored project.
C13_NoLostUpdate ==
    (/\ Idle
     /\ \A i \in 1..Len(log) : log[i].op \in CreateOps)
    => \A i \in 1..Len(log) :
          (/\ log[i].wrote
           /\ \/ log[i].parent = NoId
              \/ \E e \in Nodes(log[i].before) :
                    e.id = log[i].parent /\ e.type = "folder")
          => /\ log[i].ret \in Ids(Files)
             /\ log[i].ret \in Ids(stored[ProjectId].files)

\* C14: when every call has returned and no write is pending, the project
\* stored under the current project's id has the files of the current
\* project.
C14_WriteThrough ==
    Idle => stored[currentProject.id].files = Files

\* C12: when the write of a mutation has failed, the failure has reached
\* the caller and the current project is the mutation's new tree, the one
\* the failed write carried.
C12_FailedWriteKeepsNewTree ==
    \A i \in Returned :
        (i = Len(log) /\ Idle /\ log[i].wrote /\ log[i].threw)
        => Files = log[i].written

-----------------------------------------------------------------------------
(* Properties of the tab list *)

\* the ids of the tabs, in the order of the list
TabIds(tabs) == [i \in 1..Len(tabs) |-> tabs[i].id]

\* the files of the tabs, in the order of the list
TabFileIds(tabs) == [i \in 1..Len(tabs) |-> tabs[i].fileId]

C16_ActiveAfterClose ==
    /\ activeTabId = NoId \/ activeTabId \in {openTabs[i].id : i \in 1..Len(openTabs)}
    /\ LET n == Len(log)
       IN  (/\ n >= 1
            /\ log[n].op = "handleCloseTab"
            /\ log[n].toast = "Tab Closed")
           => /\ TabIds(openTabs) = SelectSeq(TabIds(log[n].tabs), LAMBDA t : t # log[n].id)
              /\ IF log[n].active # log[n].id THEN activeTabId = log[n].active
                 ELSE IF openTabs = <<>> THEN activeTabId = NoId
                 ELSE activeTabId = openTabs[Len(openTabs)].id

\* C16's case: three tabs were open, the active one was closed and the
\* last of the two that remain is the active one
C16_Witness ==
    LET n == Len(log)
    IN  /\ n >= 1
        /\ log[n].op = "handleCloseTab"
        /\ log[n].toast = "Tab Closed"
        /\ Len(log[n].tabs) = 3
        /\ log[n].active = log[n].id
        /\ Len(openTabs) = 2
        /\ activeTabId = openTabs[2].id

\* C17: after a renameFile of a file that has a tab, the tab's title is the
\* new name and its content and isDirty are as they were.
C17_RenameUpdatesTabTitle ==
    LET n == Len(log)
    IN  (n >= 1 /\ Idle /\ log[n].op = "renameFile")
        => \A i \in 1..Len(openTabs) :
              (/\ openTabs[i].fileId = log[n].id
               /\ \E e \in Nodes(log[n].before) : e.id = log[n].id /\ e.type = "file")
              => /\ openTabs[i].title = log[n].name
                 /\ openTabs[i].content = log[n].tabs[i].content
                 /\ openTabs[i].isDirty = log[n].tabs[i].isDirty

-----------------------------------------------------------------------------
(* Properties of duplicateFile *)

\* the index of the last "." of a name, 0 if it has none
RECURSIVE LastDotOf(_, _)
LastDotOf(name, i) ==
    IF i = 0 THEN 0 ELSE IF name[i] = "." THEN i ELSE LastDotOf(name, i - 1)

\* a name with _copy put in before the extension that follows its last ".",
\* or at its end if it has no "."
CopyNameOf(name) ==
    LET d == LastDotOf(name, Len(name))
        copy == <<"_", "c", "o", "p", "y">>
    IN  IF d = 0 THEN name \o copy
        ELSE SubSeq(name, 1, d - 1) \o copy \o SubSeq(name, d, Len(name))

\* C18: a duplicateFile of a file adds one node to the file's parent, with
\* an id no node had, the file's content and the file's name with _copy
\* before its extension, and leaves every other node as it was; for a
\* folder or an id no node has it returns nothing and leaves the tree.
C18_DuplicateAddsCopy ==
    \A i \in Returned :
        log[i].op = "duplicateFile"
        => LET src == {e \in Nodes(log[i].before) : e.id = log[i].id}
           IN  IF \E e \in src : e.type = "file"
               THEN \A f \in src :
                      \E e \in Nodes(log[i].after) :
                         /\ e.id = log[i].ret
                         /\ e.id \notin Ids(log[i].before)
                         /\ e.type = "file"
                         /\ e.owner = f.owner
                         /\ e.content = f.content
                         /\ e.name = CopyNameOf(f.name)
                         /\ Nodes(log[i].after) \ {e} = Nodes(log[i].before)
               ELSE /\ log[i].ret = NoId
                    /\ log[i].after = log[i].before

-----------------------------------------------------------------------------
(* Properties of export and import *)

\* the files of a tree: the names on the chain to each, joined by '/', with
\* the file's content
FileContents(tree) ==
    {<<e.chain, e.content>> : e \in {f \in Nodes(tree) : f.type = "file"}}

\* C19: the tree that importProjectFromZip makes of the archive that
\* exportProjectAsZip makes of a tree has the same file paths as that tree,
\* each with the same content.
C19_ZipRoundTrip ==
    \A i \in Returned :
        log[i].op = "exportThenImport"
        => FileContents(log[i].after) = FileContents(log[i].before)

-----------------------------------------------------------------------------
(* Properties of auto-save *)

\* the content of the node with the id in the in-memory tree, as a set
ContentOfFile(fileId) ==
    {e.content : e \in {f \in Nodes(Files) : f.id = fileId}}

\* C20: with auto-save enabled, once an edit of the active tab to a content
\* that differs from its file's has been followed by the run-out of the
\* auto-save timer and no write is pending, the edit is saved: the file of
\* the active tab has the edited content and the tab is clean.
C20_AutoSaveSaves ==
    LET n == Len(log)
        tab == TabWithId(openTabs, activeTabId)
    IN  (/\ n >= 2 /\ Idle
         /\ log[n - 1].op = "handleEditorChange"
         /\ log[n].op \in {"autoSaveTimeout", "handleSaveFile"}
         /\ tab # <<>>
         /\ ContentOfFile(tab[1].fileId) # {}
         /\ ContentOfFile(tab[1].fileId) # {log[n - 1].content})
        => /\ ~tab[1].isDirty
           /\ tab[1].content = log[n - 1].content
           /\ ContentOfFile(tab[1].fileId) = {tab[1].content}

-----------------------------------------------------------------------------
(* Properties of the tree engine's frame *)

\* C21: a createFile or createFolder whose parentId is not the id of a
\* folder of the tree (no node has it, or a file has it) puts the new node
\* into the root list, and the id every create call returns is the id of a
\* node of the tree the call leaves.
C21_CreateFallsBackToRoot ==
    \A i \in Returned :
        log[i].op \in CreateOps
        => /\ log[i].ret \in Ids(log[i].after)
           /\ (/\ log[i].parent # NoId
               /\ ~ \E e \in Nodes(log[i].before) :
                       e.id = log[i].parent /\ e.type = "folder")
              => \E e \in Nodes(log[i].after) :
                    e.id = log[i].ret /\ e.owner = NoId

\* the ids of the node with the id and of the nodes below it, {} if no node
\* has the id
SubtreeIds(tree, id) == Ids(Subtree(tree, id))

\* C22: a deleteFile removes the node with the id and, of a folder, every
\* node below it, and nothing else: every other node is in the tree the
\* call leaves, in the same list with the same parent, name, content and
\* path, and the nodes of a list are in the order they were in.
C22_DeleteRemovesSubtreeOnly ==
    \A i \in Returned :
        log[i].op = "deleteFile"
        => LET before == Nodes(log[i].before)
               after == Nodes(log[i].after)
               gone == SubtreeIds(log[i].before, log[i].id)
           IN  /\ {e.id : e \in after} = {e.id : e \in before} \ gone
               /\ \A a \in after :
                     \E b \in before :
                        /\ b.id = a.id /\ b.name = a.name /\ b.type = a.type
                        /\ b.content = a.content /\ b.parentId = a.parentId
                        /\ b.path = a.path /\ b.owner = a.owner
               /\ \A a1, a2 \in after :
                     (a1.owner = a2.owner /\ a1.pos < a2.pos)
                     => \E b1, b2 \in before :
                           /\ b1.id = a1.id /\ b2.id = a2.id
                           /\ b1.owner = b2.owner /\ b1.pos < b2.pos

\* C22's case: a folder with nodes in it was deleted while a node followed
\* it in its list, the call has returned, and the tree has lost the folder
\* and the nodes in it and has kept the node that followed
C22_Witness ==
    /\ Idle
    /\ \E i \in Returned :
          /\ log[i].op = "deleteFile"
          /\ log[i].wrote
          /\ Cardinality(SubtreeIds(log[i].before, log[i].id)) >= 2
          /\ \E b \in Nodes(log[i].before), f \in Nodes(log[i].before) :
                /\ b.id = log[i].id /\ f.owner = b.owner /\ f.pos > b.pos
                /\ f.id \in Ids(log[i].after)
          /\ Ids(log[i].after) # Ids(log[i].before)

\* a path that starts with the path of a folder and a '/'
StartsWithFolder(path, folderPath) ==
    /\ Len(path) > Len(folderPath)
    /\ SubSeq(path, 1, Len(folderPath) + 1) = folderPath \o Slash

\* C23: after a moveFile of a node to a folder of the tree outside the
\* node's own subtree, or to the root list, the node's parentId is the
\* folder's id (none at the root), its path is the folder's path, '/' and
\* its name (its name at the root), and the path of every node below a
\* moved folder starts with the folder's new path.
C23_MoveRecomputesPaths ==
    \A i \in Returned :
        (/\ log[i].op = "moveFile"
         /\ log[i].id \in Ids(log[i].before)
         /\ log[i].parent \notin SubtreeIds(log[i].before, log[i].id)
         /\ \/ log[i].parent = NoId
            \/ \E e \in Nodes(log[i].before) :
                  e.id = log[i].parent /\ e.type = "folder")
        => \A a \in Nodes(log[i].after) :
              a.id = log[i].id
              => /\ a.parentId = log[i].parent
                 /\ a.owner = log[i].parent
                 /\ IF log[i].parent = NoId THEN a.path = a.name
                    ELSE \A e \in Nodes(log[i].before) :
                            e.id = log[i].parent
                            => a.path = e.path \o Slash \o a.name
                 /\ \A d \in Nodes(Subtree(log[i].after, log[i].id)[1].children) :
                       StartsWithFolder(d.path, a.path)

\* C24: the node a duplicateFile of a file adds has the path of the folder
\* that holds it, '/' and its own name, or its own name in the root list.
C24_DuplicatePathUnderParent ==
    \A i \in Returned :
        (log[i].op = "duplicateFile" /\ log[i].ret # NoId)
        => \A e \in Nodes(log[i].after) :
              e.id = log[i].ret
              => IF e.owner = NoId THEN e.path = e.name
                 ELSE \A f \in Nodes(log[i].after) :
                         f.id = e.owner => e.path = f.path \o Slash \o e.name

\* C25: the tree an updateFileContent builds and writes is the tree it was
\* called on with the content of the node with the id replaced: the same
\* nodes in the same lists and places with the same name, type, parentId
\* and path, and the same content for every other node; it is that tree
\* unchanged when no node has the id; and a write is issued in both cases.
C25_UpdateChangesContentOnly ==
    \A i \in 1..Len(log) :
        log[i].op = "updateFileContent"
        => LET before == Nodes(log[i].before)
               written == Nodes(log[i].written)
           IN  /\ log[i].wrote
               /\ {e.id : e \in written} = {e.id : e \in before}
               /\ Cardinality(written) = Cardinality(before)
               /\ \A w \in written :
                     \E b \in before :
                        /\ b.id = w.id /\ b.name = w.name /\ b.type = w.type
                        /\ b.parentId = w.parentId /\ b.path = w.path
                        /\ b.owner = w.owner /\ b.pos = w.pos
                        /\ w.content = IF w.id = log[i].id THEN log[i].content
                                       ELSE b.content
               /\ log[i].id \notin Ids(log[i].before)
                  => log[i].written = log[i].before

\* C25's case: the content of a file that lies in a folder was replaced by
\* another one, the tree has a file outside that folder, and the call's
\* write has completed and left the store with the tree the call built
C25_Witness ==
    /\ Idle
    /\ \E i \in Returned :
          /\ log[i].op = "updateFileContent"
          /\ \E b \in Nodes(log[i].before) :
                /\ b.id = log[i].id /\ b.owner # NoId /\ b.type = "file"
                /\ b.content # log[i].content
          /\ \E b \in Nodes(log[i].before) :
                b.id # log[i].id /\ b.owner = NoId /\ b.type = "file"
          /\ log[i].written # log[i].before
          /\ stored[ProjectId].files = log[i].written

\* C26: a moveFile leaves the tree with the ids it had: every node of the
\* tree before the call, the moved node and the nodes below it included, is
\* a node of the tree after it, whatever the target is.
C26_MoveKeepsIds ==
    \A i \in Returned :
        log[i].op = "moveFile" => Ids(log[i].after) = Ids(log[i].before)

-----------------------------------------------------------------------------
(* Properties of the selection and the editor buffer *)

\* C27: when every call has returned, selectedFileId is none or the id of a
\* node of the current project's tree; so it is after the deletion of a
\* folder that holds the selected file.
C27_SelectionInTree ==
    Idle => (selectedFileId = NoId \/ selectedFileId \in Ids(Files))

\* C28: while a tab is active, editorContent is the content of the active
\* tab; and a save changes the content of no node but the file of the tab
\* that is active when it is called, which gets that tab's content.
C28_BufferIsActiveTab ==
    /\ \A t \in 1..Len(openTabs) :
          openTabs[t].id = activeTabId => editorContent = openTabs[t].content
    /\ \A i \in 1..Len(log) :
          (log[i].op = "handleSaveFile" /\ log[i].wrote)
          => \A w \in Nodes(log[i].written), b \in Nodes(log[i].before) :
                (w.id = b.id /\ w.content # b.content)
                => \E t \in 1..Len(log[i].tabs) :
                      /\ log[i].tabs[t].id = log[i].active
                      /\ log[i].tabs[t].fileId = w.id
                      /\ log[i].tabs[t].content = w.content

\* C29: when a save of the active tab has completed and the last call was
\* an edit of that tab, made while the save's write was pending or after
\* it, the tab's content is the edited text, and the tab is clean only if
\* that text is the content the save wrote.
C29_EditDuringSaveKept ==
    LET n == Len(log)
        tab == TabWithId(openTabs, activeTabId)
    IN  (/\ n >= 2 /\ Idle
         /\ log[n - 1].op = "handleSaveFile"
         /\ log[n - 1].wrote /\ log[n - 1].done
         /\ log[n].op = "handleEditorChange"
         /\ log[n].active = log[n - 1].active
         /\ activeTabId = log[n].active
         /\ mountedTabId = activeTabId
         /\ tab # <<>>)
        => /\ tab[1].content = log[n].content
           /\ ~tab[1].isDirty => log[n].content = log[n - 1].content

-----------------------------------------------------------------------------
(* Properties of the store *)

\* C30: when no saveProject or deleteProject call is in flight, the stored
\* projects list has one entry for each stored project and no other entry,
\* and each entry has the id and the name of the project as it is stored.
C30_ProjectsListConsistent ==
    Idle => LET projects == getProjectsList
            IN  /\ {projects[i].id : i \in 1..Len(projects)}
                      = DOMAIN stored \ {ProjectsList}
                /\ \A i, j \in 1..Len(projects) :
                      projects[i].id = projects[j].id => i = j
                /\ \A i \in 1..Len(projects) :
                      projects[i].id \in DOMAIN stored
                      => projects[i] = Summary(stored[projects[i].id])

====
